---- MODULE Spec2Model ----
(***************************************************************************)
(* Model of the anonymization / deanonymization pipeline of                *)
(* utils/anonymizer_utils.py (class PresidioAnonymizer), with the rules of  *)
(* config/config.py and the driver of anonymization_deanonymization.py.     *)
(*                                                                         *)
(* A text is a sequence of characters.  A literal character c is the       *)
(* 1-tuple <<c>>.  A character of an encrypted token is the 6-tuple         *)
(*   <<"b64", key, iv, i, n, p>>                                           *)
(* the i-th base64 character of the encryption, under key and iv, of a     *)
(* plaintext of n characters, carrying the plaintext character p (or the   *)
(* filler "~" past the plaintext).  Offsets are 0-based and half-open, as   *)
(* in Python.                                                              *)
(***************************************************************************)
EXTENDS Integers, Sequences, FiniteSets

VARIABLES
    text,                  \* original_text given to process_text
    analyzer_results,      \* the results of analyze_text, as it returned them
    pc,                    \* "start", "anonymized", "done"
    anonymized_result,     \* EngineResult of anonymize_text
    call,                  \* the deanonymization call: entry point and arguments
    deanonymizable,        \* deanonymizable_entities / mock_entities of the call
    failed,                \* the call took the except branch
    deanonymized_result    \* EngineResult the call returned

vars == <<text, analyzer_results, pc, anonymized_result, call, deanonymizable,
          failed, deanonymized_result>>

-----------------------------------------------------------------------------
(* Bounds of the model *)

\* A document is made of at most MaxPieces pieces of the catalogue.
MaxPieces == 3
\* At most MaxSpans detected spans in the overlapping-span inputs.
MaxSpans == 2

-----------------------------------------------------------------------------
(* Characters and strings *)

Str(s) == [i \in 1..Len(s) |-> <<s[i]>>]

\* Python slice t[s:e]
Slice(t, s, e) == SubSeq(t, s + 1, e)

Min(a, b) == IF a < b THEN a ELSE b
Max(a, b) == IF a > b THEN a ELSE b

\* The character class [A-Za-z0-9_-] of encrypted_pattern; it is also the
\* alphabet of base64.urlsafe_b64encode.
PatternAlphabet ==
    {"A","B","C","D","E","F","G","H","I","J","K","L","M","N","O","P","Q","R",
     "S","T","U","V","W","X","Y","Z",
     "a","b","c","d","e","f","g","h","i","j","k","l","m","n","o","p","q","r",
     "s","t","u","v","w","x","y","z",
     "0","1","2","3","4","5","6","7","8","9","_","-"}

IsCipherChar(c) == Len(c) = 6

IsPatternChar(c) == IsCipherChar(c) \/ c[1] \in PatternAlphabet

IsDot(c) == c = <<".">>

IsPad(c) == c = <<"=">>

-----------------------------------------------------------------------------
(* config.py *)

\* encryption_key = sha256("presidio_demo_key_2024"): one fixed 32-byte key
encryption_key == "K"

\* bytes of the AES block, and of the IV that AES-CBC prepends
AESBlock == 16
IVLen == 16

\* chars_to_mask of the PHONE_NUMBER rule
CharsToMask == 9

\* {n,} of encrypted_pattern
MinRun == 50

ANONYMIZATION_RULES ==
    [PERSON            |-> [operator_name |-> "keep"],
     PHONE_NUMBER      |-> [operator_name |-> "mask", masking_char |-> <<"X">>,
                            chars_to_mask |-> CharsToMask, from_end |-> TRUE],
     EMAIL_ADDRESS     |-> [operator_name |-> "replace",
                            new_value |-> Str(<<"[","H","I","D","D","E","N","_",
                                                "E","M","A","I","L","]">>)],
     NIF_CODE          |-> [operator_name |-> "replace",
                            new_value |-> Str(<<"[","H","I","D","D","E","N","_",
                                                "I","D","]">>)],
     US_DRIVER_LICENSE |-> [operator_name |-> "replace",
                            new_value |-> Str(<<"[","H","I","D","D","E","N","_",
                                                "D","R","I","V","E","R","_",
                                                "L","I","C","E","N","S","E","]">>)],
     CREDIT_CARD       |-> [operator_name |-> "encrypt", key |-> encryption_key],
     SSN               |-> [operator_name |-> "replace",
                            new_value |-> Str(<<"[","H","I","D","D","E","N","_",
                                                "S","S","N","]">>)]]

DEANONYMIZATION_RULES ==
    [CREDIT_CARD |-> [operator_name |-> "decrypt", key |-> encryption_key]]

\* The printed name of an entity type, for the default operator's "<TYPE>".
TypeName(entity_type) ==
    CASE entity_type = "IP_ADDRESS" ->
            Str(<<"I","P","_","A","D","D","R","E","S","S">>)
      [] entity_type = "DATE_TIME" ->
            Str(<<"D","A","T","E","_","T","I","M","E">>)
      [] OTHER -> Str(<<"E","N","T","I","T","Y">>)

-----------------------------------------------------------------------------
(* The operators that the rules name *)

\* Length of the urlsafe base64 encoding of n bytes, without its padding,
\* and the number of '=' that pad it.
B64BodyLen(n) == (n \div 3) * 4 + (IF n % 3 = 0 THEN 0 ELSE (n % 3) + 1)
B64PadLen(n) == (3 - (n % 3)) % 3

\* Bytes of IV + AES-CBC ciphertext of a PKCS7-padded plaintext of n bytes.
CipherBytes(n) == IVLen + AESBlock * ((n \div AESBlock) + 1)

\* operator "encrypt": urlsafe_b64encode(iv + AES_CBC(key, iv, pad(text)))
Encrypt(t, key, iv) ==
    LET n == Len(t)
        bytes == CipherBytes(n)
    IN  [i \in 1..B64BodyLen(bytes) |->
            <<"b64", key, iv, i, n, IF i <= n THEN t[i] ELSE <<"~">> >>]
        \o [i \in 1..B64PadLen(bytes) |-> <<"=">>]

\* operator "decrypt": urlsafe_b64decode discards the characters outside the
\* base64 alphabet and raises on a wrong padding; the AES-CBC decryption and
\* the PKCS7 unpadding raise unless the bytes are a ciphertext under the key.
Decrypt(t, key) ==
    LET data == SelectSeq(t, IsPatternChar)
        pads == Len(SelectSeq(t, IsPad))
        n == data[1][5]
        bytes == CipherBytes(n)
        wellFormed ==
            /\ Len(data) > 0
            /\ IsCipherChar(data[1])
            /\ \A i \in 1..Len(data) :
                  /\ IsCipherChar(data[i])
                  /\ data[i][2] = key
                  /\ data[i][3] = data[1][3]
                  /\ data[i][4] = i
                  /\ data[i][5] = data[1][5]
            /\ Len(data) = B64BodyLen(bytes)
            /\ pads >= B64PadLen(bytes)
    IN  IF wellFormed
        THEN [ok |-> TRUE, text |-> [i \in 1..n |-> data[i][6]]]
        ELSE [ok |-> FALSE, text |-> <<>>]

\* operator "mask": Mask._get_effective_chars_to_mask and _get_anonymized_text
Mask(t, params) ==
    LET effective == IF params.chars_to_mask > 0
                     THEN Min(Len(t), params.chars_to_mask) ELSE 0
    IN  IF ~params.from_end
        THEN [i \in 1..effective |-> params.masking_char]
             \o Slice(t, effective, Len(t))
        ELSE Slice(t, 0, Len(t) - effective)
             \o [i \in 1..effective |-> params.masking_char]

\* OperatorFor had no DEFAULT been added: the text is kept
OperatorForKeep(rules, entity_type) ==
    IF entity_type \in DOMAIN rules
    THEN rules[entity_type]
    ELSE [operator_name |-> "keep"]

\* The operator configured for an entity type, or the DEFAULT that
\* AnonymizerEngine adds when the rules name none: replace by "<TYPE>".
OperatorFor(rules, entity_type) ==
    IF entity_type \in DOMAIN rules
    THEN rules[entity_type]
    ELSE [operator_name |-> "replace", new_value |-> <<>>]

\* One operator applied to the text of one entity.
Operate(op, entity_type, t, iv) ==
    CASE op.operator_name = "keep"    -> [ok |-> TRUE, text |-> t]
      [] op.operator_name = "mask"    -> [ok |-> TRUE, text |-> Mask(t, op)]
      [] op.operator_name = "replace" ->
            [ok |-> TRUE,
             text |-> IF op.new_value = <<>>
                      THEN Str(<<"<">>) \o TypeName(entity_type) \o Str(<<">">>)
                      ELSE op.new_value]
      [] op.operator_name = "encrypt" -> [ok |-> TRUE, text |-> Encrypt(t, op.key, iv)]
      [] op.operator_name = "decrypt" -> Decrypt(t, op.key)

-----------------------------------------------------------------------------
(* RecognizerResult: [entity_type, start, end, score], score in percent *)

equal_indices(a, b) == a.start = b.start /\ a.end = b.end

contains(a, b) == a.start <= b.start /\ a.end >= b.end

intersects(a, b) ==
    IF a.end < b.start \/ b.end < a.start
    THEN 0
    ELSE Min(a.end, b.end) - Max(a.start, b.start)

\* has_conflict had it gone by the score of any overlapping result
has_conflict_by_score(a, b) ==
    a.start < b.end /\ b.start < a.end /\ a.score <= b.score

\* RecognizerResult.has_conflict: equal indices and a score not higher, or
\* indices contained in the other's
has_conflict(a, b) ==
    IF equal_indices(a, b) THEN a.score <= b.score ELSE contains(b, a)

\* RecognizerResult.__gt__, which sorted() compares with
GreaterThan(a, b) ==
    IF a.start = b.start THEN a.end > b.end ELSE a.start > b.start

\* list.remove(x): drops the first element equal to x
RECURSIVE RemoveFirst(_, _)
RemoveFirst(s, x) ==
    IF s = <<>> THEN <<>>
    ELSE IF Head(s) = x THEN Tail(s)
    ELSE <<Head(s)>> \o RemoveFirst(Tail(s), x)

\* The same on a list of indices into cur, compared by the value they hold.
RECURSIVE RemoveFirstIndex(_, _, _)
RemoveFirstIndex(idx, cur, x) ==
    IF idx = <<>> THEN <<>>
    ELSE IF cur[Head(idx)] = x THEN Tail(idx)
    ELSE <<Head(idx)>> \o RemoveFirstIndex(Tail(idx), cur, x)

\* First pass of AnonymizerEngine._remove_conflicts_and_get_text_manipulation_data:
\* a result that intersects another of its entity type is merged into that
\* one (which is changed in place) and dropped.  cur holds the results by
\* position, others and tmp hold positions.
RECURSIVE MergeSameType(_, _, _, _)
MergeSameType(cur, others, i, tmp) ==
    IF i > Len(cur) THEN [cur |-> cur, kept |-> tmp]
    ELSE
      LET rest == RemoveFirstIndex(others, cur, cur[i])
          hits == {k \in 1..Len(rest) :
                      /\ cur[rest[k]].entity_type = cur[i].entity_type
                      /\ intersects(cur[i], cur[rest[k]]) # 0}
      IN  IF hits # {}
          THEN LET k == CHOOSE h \in hits : \A g \in hits : h <= g
                   j == rest[k]
                   merged == [cur[j] EXCEPT
                                !.start = Min(cur[i].start, cur[j].start),
                                !.end   = Max(cur[i].end, cur[j].end),
                                !.score = Max(cur[i].score, cur[j].score)]
               IN  MergeSameType([cur EXCEPT ![j] = merged], rest, i + 1, tmp)
          ELSE MergeSameType(cur, Append(rest, i), i + 1, Append(tmp, i))

\* Second pass: a result that has_conflict with another one still standing
\* is dropped.
RECURSIVE DropConflicted(_, _, _, _, _)
DropConflicted(cur, tmp, others, k, unique) ==
    IF k > Len(tmp) THEN unique
    ELSE
      LET i == tmp[k]
          rest == RemoveFirstIndex(others, cur, cur[i])
          conflicted == \E m \in 1..Len(rest) : has_conflict(cur[i], cur[rest[m]])
      IN  IF conflicted
          THEN DropConflicted(cur, tmp, rest, k + 1, unique)
          ELSE DropConflicted(cur, tmp, Append(rest, i), k + 1, Append(unique, cur[i]))

\* _remove_conflicts_and_get_text_manipulation_data with the default strategy
\* MERGE_SIMILAR_OR_CONTAINED
RemoveConflicts(results) ==
    LET first == MergeSameType(results, [i \in 1..Len(results) |-> i], 1, <<>>)
    IN  DropConflicted(first.cur, first.kept, first.kept, 1, <<>>)

\* re.search(r"^( )+$", s)
OnlySpaces(s) == Len(s) > 0 /\ \A i \in 1..Len(s) : s[i] = <<" ">>

\* AnonymizerEngine._merge_entities_with_whitespace_between
RECURSIVE MergeWhitespace(_, _, _, _, _)
MergeWhitespace(t, results, k, merged, prev) ==
    IF k > Len(results) THEN merged
    ELSE
      LET r == results[k]
          join == /\ prev # <<>>
                  /\ prev[1].entity_type = r.entity_type
                  /\ OnlySpaces(Slice(t, prev[1].end, r.start))
          r2 == IF join THEN [r EXCEPT !.start = prev[1].start] ELSE r
          m2 == IF join THEN RemoveFirst(merged, prev[1]) ELSE merged
      IN  MergeWhitespace(t, results, k + 1, Append(m2, r2), <<r2>>)

\* sorted(pii_entities, reverse=True): descending, equal elements in their
\* original order
RECURSIVE InsertDescending(_, _)
InsertDescending(s, x) ==
    IF s = <<>> THEN <<x>>
    ELSE IF GreaterThan(x, Head(s)) THEN <<x>> \o s
    ELSE <<Head(s)>> \o InsertDescending(Tail(s), x)

RECURSIVE SortedReverse(_)
SortedReverse(s) ==
    IF s = <<>> THEN <<>>
    ELSE InsertDescending(SortedReverse(SubSeq(s, 1, Len(s) - 1)), s[Len(s)])

\* _operate had it skipped an entity whose operator raised
RECURSIVE OperateFromSkipping(_, _, _, _, _, _)
OperateFromSkipping(t, sorted, rules, ivs, k, acc) ==
    IF k > Len(sorted) THEN acc
    ELSE
      LET entity == sorted[k]
          op == OperatorFor(rules, entity.entity_type)
          changed == Operate(op, entity.entity_type,
                             Slice(t, entity.start, entity.end), ivs[k])
          end_of_text == Min(entity.end, acc.last)
          after == Slice(acc.output, end_of_text, Len(acc.output))
          item == [start |-> 0, end |-> Len(after),
                   entity_type |-> entity.entity_type,
                   text |-> changed.text, operator |-> op.operator_name]
      IN  IF ~changed.ok
          THEN OperateFromSkipping(t, sorted, rules, ivs, k + 1, acc)
          ELSE OperateFromSkipping(t, sorted, rules, ivs, k + 1,
                 [ok |-> TRUE,
                  output |-> Slice(acc.output, 0, entity.start) \o changed.text \o after,
                  last |-> entity.start,
                  items |-> Append(acc.items, item)])

\* EngineBase._operate, one entity at a time from the end of the text to its
\* start, on a TextReplaceBuilder [output_text, last_replacement_index].
\* ivs[k] is the IV that os.urandom gives the k-th operation.  The result is
\* not ok when an operator raised.
RECURSIVE OperateFrom(_, _, _, _, _, _)
OperateFrom(t, sorted, rules, ivs, k, acc) ==
    IF k > Len(sorted) \/ ~acc.ok THEN acc
    ELSE
      LET entity == sorted[k]
          op == OperatorFor(rules, entity.entity_type)
          changed == Operate(op, entity.entity_type,
                             Slice(t, entity.start, entity.end), ivs[k])
          end_of_text == Min(entity.end, acc.last)
          after == Slice(acc.output, end_of_text, Len(acc.output))
          item == [start |-> 0, end |-> Len(after),
                   entity_type |-> entity.entity_type,
                   text |-> changed.text, operator |-> op.operator_name]
      IN  IF ~changed.ok
          THEN [acc EXCEPT !.ok = FALSE]
          ELSE OperateFrom(t, sorted, rules, ivs, k + 1,
                 [ok |-> TRUE,
                  output |-> Slice(acc.output, 0, entity.start) \o changed.text \o after,
                  last |-> entity.start,
                  items |-> Append(acc.items, item)])

\* normalize_item_indexes had it left the replacement's length out
NormalizeItemFromEnd(item, text_len) ==
    LET start == text_len - item.end
    IN  [item EXCEPT !.start = start, !.end = start + Len(item.text)]

\* EngineResult.normalize_item_indexes
NormalizeItem(item, text_len) ==
    LET start == text_len - (item.end + Len(item.text))
    IN  [item EXCEPT !.start = start, !.end = start + Len(item.text)]

EngineOperate(t, entities, rules, ivs) ==
    LET r == OperateFrom(t, SortedReverse(entities), rules, ivs, 1,
                         [ok |-> TRUE, output |-> t, last |-> Len(t), items |-> <<>>])
    IN  [ok |-> r.ok,
         text |-> r.output,
         items |-> [k \in 1..Len(r.items) |-> NormalizeItem(r.items[k], Len(r.output))]]

\* The entities AnonymizerEngine.anonymize operates on
Resolved(t, results) ==
    MergeWhitespace(t, RemoveConflicts(results), 1, <<>>, <<>>)

\* PresidioAnonymizer.anonymize_text
anonymize_text(t, results, ivs) ==
    EngineOperate(t, Resolved(t, results), ANONYMIZATION_RULES, ivs)

-----------------------------------------------------------------------------
(* Deanonymization *)

\* End of the longest run of pattern characters that starts at offset i
RECURSIVE RunEnd(_, _)
RunEnd(t, i) ==
    IF i < Len(t) /\ IsPatternChar(t[i + 1]) THEN RunEnd(t, i + 1) ELSE i

\* re.finditer(r'[A-Za-z0-9_-]{50,}\.?', t) from offset i on
RECURSIVE FindIter(_, _)
FindIter(t, i) ==
    IF i >= Len(t) THEN <<>>
    ELSE IF ~IsPatternChar(t[i + 1]) THEN FindIter(t, i + 1)
    ELSE LET e == RunEnd(t, i)
             stop == IF e < Len(t) /\ IsDot(t[e + 1]) THEN e + 1 ELSE e
         IN  IF e - i >= MinRun
             THEN <<[start |-> i, end |-> stop]>> \o FindIter(t, stop)
             ELSE FindIter(t, e)

\* One RecognizerResult per match
EncryptedEntities(t) ==
    LET matches == FindIter(t, 0)
    IN  [k \in 1..Len(matches) |->
            [entity_type |-> "CREDIT_CARD", start |-> matches[k].start,
             end |-> matches[k].end, score |-> 100]]

\* The loop of deanonymize_with_entities over original_entities
RECURSIVE DeanonymizableEntities(_, _)
DeanonymizableEntities(anonymized_text, original_entities) ==
    IF original_entities = <<>> THEN <<>>
    ELSE LET entity == Head(original_entities)
             found == IF /\ entity.entity_type \in DOMAIN DEANONYMIZATION_RULES
                         /\ entity.entity_type = "CREDIT_CARD"
                      THEN EncryptedEntities(anonymized_text)
                      ELSE <<>>
         IN  found \o DeanonymizableEntities(anonymized_text, Tail(original_entities))

\* "\n\n[Note: Deanonymization failed: ...]"
FailureNote == Str(<<"\n", "\n", "[", "N", "o", "t", "e", "]">>)

\* DeanonymizeEngine.deanonymize
deanonymize(t, entities) ==
    EngineOperate(t, entities, DEANONYMIZATION_RULES, [k \in 1..Len(entities) |-> 0])

\* deanonymize_with_entities had its except branch returned the text alone
deanonymize_with_entities_no_note(anonymized_text, original_entities) ==
    LET entities == DeanonymizableEntities(anonymized_text, original_entities)
        r == deanonymize(anonymized_text, entities)
    IN  IF entities = <<>>
        THEN [text |-> anonymized_text, items |-> <<>>, failed |-> FALSE]
        ELSE IF r.ok
        THEN [text |-> r.text, items |-> r.items, failed |-> FALSE]
        ELSE [text |-> anonymized_text, items |-> <<>>, failed |-> TRUE]

\* PresidioAnonymizer.deanonymize_with_entities
deanonymize_with_entities(anonymized_text, original_entities) ==
    LET entities == DeanonymizableEntities(anonymized_text, original_entities)
        r == deanonymize(anonymized_text, entities)
    IN  IF entities = <<>>
        THEN [text |-> anonymized_text, items |-> <<>>, failed |-> FALSE]
        ELSE IF r.ok
        THEN [text |-> r.text, items |-> r.items, failed |-> FALSE]
        ELSE [text |-> anonymized_text \o FailureNote, items |-> <<>>, failed |-> TRUE]

\* PresidioAnonymizer.deanonymize_text: mock_entities is always empty
deanonymize_text(t) ==
    LET r == deanonymize(t, <<>>)
    IN  [text |-> r.text, items |-> r.items, failed |-> ~r.ok]

-----------------------------------------------------------------------------
(* Inputs *)

\* The pieces documents are made of, each with the entity the analyzer
\* detects on it ("" for none) and its score.
Catalogue ==
    { [s |-> Str(<<" ">>), entity_type |-> "", score |-> 0],
      [s |-> Str(<<".">>), entity_type |-> "", score |-> 0],
      [s |-> Str(<<"-">>), entity_type |-> "", score |-> 0],
      [s |-> Str(<<" ","a","n","d"," ">>), entity_type |-> "", score |-> 0],
      [s |-> Str(<<"4","1","1","1"," ","1","1","1","1"," ","1","1","1","1"," ",
                   "1","1","1","1">>),
       entity_type |-> "CREDIT_CARD", score |-> 100],
      [s |-> Str(<<"3","7","8","2","8","2","2","4","6","3","1","0","0","0","5">>),
       entity_type |-> "CREDIT_CARD", score |-> 100],
      [s |-> Str(<<"+","3","4"," ","9","1","2"," ","3","4","5"," ","6","7","8">>),
       entity_type |-> "PHONE_NUMBER", score |-> 75],
      [s |-> Str(<<"1","0",".","1","8",".","1",".","1">>),
       entity_type |-> "IP_ADDRESS", score |-> 95] }

RECURSIVE Concat(_)
Concat(pieces) ==
    IF pieces = <<>> THEN <<>> ELSE Head(pieces).s \o Concat(Tail(pieces))

\* The detected spans of a document, in the order of the text
RECURSIVE Detected(_, _)
Detected(pieces, offset) ==
    IF pieces = <<>> THEN <<>>
    ELSE LET p == Head(pieces)
             rest == Detected(Tail(pieces), offset + Len(p.s))
         IN  IF p.entity_type = "" THEN rest
             ELSE <<[entity_type |-> p.entity_type, start |-> offset,
                     end |-> offset + Len(p.s), score |-> p.score]>> \o rest

\* Two detected entities never touch: something stands between them.
Documents ==
    UNION { { d \in [1..n -> Catalogue] :
                \A k \in 1..(n - 1) :
                    d[k].entity_type = "" \/ d[k + 1].entity_type = "" } :
            n \in 1..MaxPieces }

\* A text on which recognizers disagree, and the spans they may report on it
OverlapText ==
    Str(<<"j","o","h","n","@","d","o","e",".","e","x","a","m","p","l","e",
          ".","c","o","m">>)

OverlapGrid == {0, 4, 8, 20}

OverlapSpans ==
    { [entity_type |-> ty, start |-> a, end |-> b, score |-> sc] :
        ty \in {"PERSON", "EMAIL_ADDRESS"}, a \in OverlapGrid, b \in OverlapGrid,
        sc \in {80, 99} }

SpanLists ==
    UNION { { l \in [1..n -> OverlapSpans] : \A k \in 1..n : l[k].start < l[k].end } :
            n \in 0..MaxSpans }

\* os.urandom gives every encryption of a call an IV of its own; which
\* ones is a choice among IVSeeds.
IVSeeds == {0, 1}

IVsOf(seed, n) == [k \in 1..n |-> 2 * k + seed]

\* What may reach a deanonymization call as the anonymized text: the text as
\* anonymize_text returned it, or with the token of one encrypted item
\* damaged in storage or transit, or encrypted under another key.
Damaged(t, item, how) ==
    [i \in 1..Len(t) |->
        IF i > item.start /\ i <= item.end /\ IsCipherChar(t[i])
        THEN IF how = "key" THEN [t[i] EXCEPT ![2] = "K2"]
             ELSE IF i = item.start + 1 THEN <<"A">> ELSE t[i]
        ELSE t[i]]

AnonymizedTexts(result) ==
    {result.text} \cup
    { Damaged(result.text, result.items[k], how) :
        k \in {j \in 1..Len(result.items) : result.items[j].operator = "encrypt"},
        how \in {"char", "key"} }

IsCard(entity) == entity.entity_type = "CREDIT_CARD"
NotCard(entity) == entity.entity_type # "CREDIT_CARD"

\* The lists a caller may pass as original_entities
EntityLists(results) ==
    {results, <<>>, SelectSeq(results, NotCard), SelectSeq(results, IsCard)}

-----------------------------------------------------------------------------
(* The program *)

NoResult == [text |-> <<>>, items |-> <<>>]
NoCall == [fn |-> "", anonymized_text |-> <<>>, original_entities |-> <<>>]

Init ==
    /\ \/ \E d \in Documents :
             /\ text = Concat(d)
             /\ analyzer_results = Detected(d, 0)
       \/ /\ text = OverlapText
          /\ analyzer_results \in SpanLists
    /\ pc = "start"
    /\ anonymized_result = NoResult
    /\ call = NoCall
    /\ deanonymizable = <<>>
    /\ failed = FALSE
    /\ deanonymized_result = NoResult

\* process_text (analyze_text, then anonymize_text) as main calls it
ProcessText ==
    /\ pc = "start"
    /\ \E seed \in IVSeeds :
          LET n == Len(Resolved(text, analyzer_results))
              r == anonymize_text(text, analyzer_results, IVsOf(seed, n))
          IN  anonymized_result' = [text |-> r.text, items |-> r.items]
    /\ pc' = "anonymized"
    /\ UNCHANGED <<text, analyzer_results, call, deanonymizable, failed,
                   deanonymized_result>>

\* deanonymize_with_entities(anonymized_text, original_entities)
DeanonymizeWithEntities ==
    /\ pc = "anonymized"
    /\ \E t \in AnonymizedTexts(anonymized_result),
          entities \in EntityLists(analyzer_results) :
          LET r == deanonymize_with_entities(t, entities)
          IN  /\ call' = [fn |-> "deanonymize_with_entities",
                          anonymized_text |-> t, original_entities |-> entities]
              /\ deanonymizable' = DeanonymizableEntities(t, entities)
              /\ failed' = r.failed
              /\ deanonymized_result' = [text |-> r.text, items |-> r.items]
    /\ pc' = "done"
    /\ UNCHANGED <<text, analyzer_results, anonymized_result>>

\* deanonymize_text(text); the entities it collects are never used
DeanonymizeText ==
    /\ pc = "anonymized"
    /\ \E t \in AnonymizedTexts(anonymized_result) :
          LET r == deanonymize_text(t)
          IN  /\ call' = [fn |-> "deanonymize_text",
                          anonymized_text |-> t, original_entities |-> <<>>]
              /\ deanonymizable' = <<>>
              /\ failed' = r.failed
              /\ deanonymized_result' = [text |-> r.text, items |-> r.items]
    /\ pc' = "done"
    /\ UNCHANGED <<text, analyzer_results, anonymized_result>>

Next ==
    \/ ProcessText
    \/ DeanonymizeWithEntities
    \/ DeanonymizeText

Spec == Init /\ [][Next]_vars

-----------------------------------------------------------------------------
(* Vocabulary of the properties *)

RECURSIVE SumSeq(_)
SumSeq(s) == IF s = <<>> THEN 0 ELSE Head(s) + SumSeq(Tail(s))

\* The entities anonymize_text operated on, in the order of its records:
\* record k of anonymized_result.items is about ResolvedSpans[k].
ResolvedSpans == SortedReverse(Resolved(text, analyzer_results))

Records == anonymized_result.items

OriginalOf(k) == Slice(text, ResolvedSpans[k].start, ResolvedSpans[k].end)

Overlap(a, b) == a.start < b.end /\ b.start < a.end

NonOverlapping(spans) ==
    \A i, j \in 1..Len(spans) : i # j => ~Overlap(spans[i], spans[j])

\* Sum, over the spans that start before span k, of replacement length
\* minus span length
DeltaBefore(k) ==
    SumSeq([j \in 1..Len(Records) |->
              IF ResolvedSpans[j].start < ResolvedSpans[k].start
              THEN Len(Records[j].text)
                     - (ResolvedSpans[j].end - ResolvedSpans[j].start)
              ELSE 0])

\* The unchanged regions of the original text and the replacements, in order
\* of the text, from span k (counted from the end of the text) on
RECURSIVE Concatenation(_, _)
Concatenation(k, from) ==
    IF k = 0 THEN Slice(text, from, Len(text))
    ELSE Slice(text, from, ResolvedSpans[k].start) \o Records[k].text
         \o Concatenation(k - 1, ResolvedSpans[k].end)

Anonymized == pc # "start"

\* A finished call of deanonymize_with_entities
WithEntitiesDone == pc = "done" /\ call.fn = "deanonymize_with_entities"

\* The call main makes: the anonymized text as returned, the analyzer results
MainCall ==
    /\ WithEntitiesDone
    /\ call.anonymized_text = anonymized_result.text
    /\ call.original_entities = analyzer_results

\* The candidate regions the scan finds in the text of the call
Candidates == FindIter(call.anonymized_text, 0)

Inverse(region) ==
    Decrypt(Slice(call.anonymized_text, region.start, region.end), encryption_key)

\* The text in which every candidate region that can be inverted holds its
\* plaintext and every other character is as in the anonymized text
RECURSIVE PartialRecovery(_, _)
PartialRecovery(k, from) ==
    IF k > Len(Candidates) THEN Slice(call.anonymized_text, from, Len(call.anonymized_text))
    ELSE Slice(call.anonymized_text, from, Candidates[k].start)
         \o (IF Inverse(Candidates[k]).ok
             THEN Inverse(Candidates[k]).text
             ELSE Slice(call.anonymized_text, Candidates[k].start, Candidates[k].end))
         \o PartialRecovery(k + 1, Candidates[k].end)

EncryptedRecords == {k \in 1..Len(Records) : Records[k].operator = "encrypt"}

\* Where span k starts in a text in which every encrypted span is restored
RestoredStart(k) ==
    Records[k].start
    + SumSeq([j \in 1..Len(Records) |->
                IF j \in EncryptedRecords /\ Records[j].start < Records[k].start
                THEN Len(OriginalOf(j)) - Len(Records[j].text)
                ELSE 0])

-----------------------------------------------------------------------------
(* Properties *)

\* C1: after anonymize and then deanonymize_with_entities as main calls
\* them, every span whose entity type maps to encrypt holds its original
\* substring again, whatever the number of such spans and their lengths.
C1_RoundTrip ==
    MainCall =>
        \A k \in EncryptedRecords :
            Slice(deanonymized_result.text, RestoredStart(k),
                  RestoredStart(k) + Len(OriginalOf(k))) = OriginalOf(k)

\* C2: when there are several candidate regions and the inverse operator
\* fails on one of them, that region is left as it was and every other
\* candidate region that can be inverted is still recovered in the same call.
C2_PerRegionFailure ==
    ( /\ WithEntitiesDone
      /\ deanonymizable # <<>>
      /\ Len(Candidates) >= 2
      /\ \E k \in 1..Len(Candidates) : ~Inverse(Candidates[k]).ok )
    => deanonymized_result.text = PartialRecovery(1, 0)

\* C2 as amended: when the inverse operator fails on any candidate region,
\* the call returns the anonymized text, every region as it was, followed by
\* the failure note, and no record: no region is recovered in that call.
C2_WholeCallFailure ==
    ( /\ WithEntitiesDone
      /\ deanonymizable # <<>>
      /\ \E k \in 1..Len(Candidates) : ~Inverse(Candidates[k]).ok )
    => /\ failed
       /\ deanonymized_result.text = call.anonymized_text \o FailureNote
       /\ deanonymized_result.items = <<>>

\* Two candidate regions, one that cannot be inverted and one that can
C2_Witness ==
    /\ WithEntitiesDone
    /\ deanonymizable # <<>>
    /\ Len(Candidates) = 2
    /\ \E k, m \in 1..2 : ~Inverse(Candidates[k]).ok /\ Inverse(Candidates[m]).ok
    /\ failed

\* C3: for the anonymized text as anonymize_text returned it, the recovered
\* text is the same whatever list of original entities is supplied, and
\* whichever entry point is used.
C3_IndependentOfEntities ==
    (pc = "done" /\ call.anonymized_text = anonymized_result.text) =>
        \A l \in EntityLists(analyzer_results) :
            deanonymized_result.text
              = deanonymize_with_entities(call.anonymized_text, l).text

\* C4: a span whose entity type has no entry in ANONYMIZATION_RULES keeps
\* its original substring in the output and gets no record.
C4_PassThrough ==
    Anonymized =>
        \A k \in 1..Len(ResolvedSpans) :
            ResolvedSpans[k].entity_type \notin DOMAIN ANONYMIZATION_RULES =>
                /\ \A j \in 1..Len(Records) :
                      Records[j].entity_type # ResolvedSpans[k].entity_type
                /\ Slice(anonymized_result.text,
                         ResolvedSpans[k].start + DeltaBefore(k),
                         ResolvedSpans[k].start + DeltaBefore(k) + Len(OriginalOf(k)))
                     = OriginalOf(k)

\* C4 as amended: a span whose entity type has no entry in
\* ANONYMIZATION_RULES is replaced by its entity type between angle
\* brackets, and a record of operator replace is emitted for it.
C4_DefaultReplace ==
    Anonymized =>
        /\ Len(Records) = Len(ResolvedSpans)
        /\ \A k \in 1..Len(ResolvedSpans) :
              ResolvedSpans[k].entity_type \notin DOMAIN ANONYMIZATION_RULES =>
                 /\ Records[k].entity_type = ResolvedSpans[k].entity_type
                 /\ Records[k].operator = "replace"
                 /\ Records[k].text
                      = Str(<<"<">>) \o TypeName(ResolvedSpans[k].entity_type)
                          \o Str(<<">">>)
                 /\ Slice(anonymized_result.text, Records[k].start, Records[k].end)
                      = Records[k].text

\* An anonymized text with a span of an unregistered entity type
C4_Witness ==
    /\ pc = "anonymized"
    /\ \E k \in 1..Len(Records) : Records[k].entity_type = "IP_ADDRESS"

\* C5: when the scan finds no candidate region the call returns the
\* anonymized text character for character and reports nothing; a call in
\* which a candidate was found and could not be inverted returns a
\* different text.
C5_NothingReversible ==
    pc = "done" =>
        /\ Candidates = <<>> =>
              /\ deanonymized_result = [text |-> call.anonymized_text, items |-> <<>>]
              /\ ~failed
        /\ failed =>
              /\ Candidates # <<>>
              /\ deanonymized_result.text # call.anonymized_text

\* The scan ran, on behalf of a CREDIT_CARD entity, and found nothing
C5_Witness ==
    /\ WithEntitiesDone
    /\ \E k \in 1..Len(call.original_entities) : IsCard(call.original_entities[k])
    /\ \E k \in 1..Len(Records) : Records[k].operator = "encrypt"
    /\ Candidates = <<>>
    /\ deanonymized_result.text = call.anonymized_text

\* C6: for every text and span set, each record has new_start =
\* original_start + the sum over earlier spans of replacement length minus
\* span length, new_end - new_start = the replacement's length, the output
\* is the concatenation of unchanged regions and replacements, and
\* new_text[new_start:new_end] is the operator's output.
C6_Coordinates ==
    Anonymized =>
        /\ \A k \in 1..Len(Records) :
              /\ Records[k].start = ResolvedSpans[k].start + DeltaBefore(k)
              /\ Records[k].end - Records[k].start = Len(Records[k].text)
              /\ Slice(anonymized_result.text, Records[k].start, Records[k].end)
                   = Records[k].text
        /\ anonymized_result.text = Concatenation(Len(Records), 0)

\* C6 as amended: every record has new_end - new_start = the replacement's
\* length and new_text[new_start:new_end] is the operator's output; when
\* the spans operated on do not overlap, new_start is as claimed and the
\* output is the concatenation of unchanged regions and replacements.
C6_CoordinatesNonOverlapping ==
    Anonymized =>
        /\ Len(Records) = Len(ResolvedSpans)
        /\ \A k \in 1..Len(Records) :
              /\ Records[k].end - Records[k].start = Len(Records[k].text)
              /\ 0 <= Records[k].start
              /\ Records[k].end <= Len(anonymized_result.text)
              /\ Slice(anonymized_result.text, Records[k].start, Records[k].end)
                   = Records[k].text
        /\ NonOverlapping(ResolvedSpans) =>
              /\ \A k \in 1..Len(Records) :
                    Records[k].start = ResolvedSpans[k].start + DeltaBefore(k)
              /\ anonymized_result.text = Concatenation(Len(Records), 0)

\* Two spans that do not overlap, the earlier one replaced by a text of
\* another length
C6_Witness ==
    /\ pc = "anonymized"
    /\ Len(Records) >= 2
    /\ NonOverlapping(ResolvedSpans)
    /\ \E k \in 1..Len(Records) : DeltaBefore(k) # 0

\* The two detected spans, when there are two and they overlap
TwoOverlapping ==
    /\ Len(analyzer_results) = 2
    /\ Overlap(analyzer_results[1], analyzer_results[2])

HigherScore ==
    IF analyzer_results[1].score > analyzer_results[2].score
    THEN analyzer_results[1] ELSE analyzer_results[2]

\* C7: when two detected spans (of two entity types) overlap, the one with
\* the higher score is kept and the other is dropped; of {PERSON,0,8,0.8}
\* and {EMAIL_ADDRESS,4,20,0.99} only EMAIL_ADDRESS is kept.
C7_HigherScoreWins ==
    ( /\ Anonymized
      /\ TwoOverlapping
      /\ analyzer_results[1].entity_type # analyzer_results[2].entity_type
      /\ analyzer_results[1].score # analyzer_results[2].score )
    => /\ ResolvedSpans = <<HigherScore>>
       /\ Len(Records) = 1
       /\ Records[1].entity_type = HigherScore.entity_type

\* C7 as amended: when two detected spans overlap, two spans of one entity
\* type are merged into one span that covers both; of two spans of
\* different types, one whose range is contained in the other's is dropped
\* (on identical ranges the one whose score is not higher, the first on a
\* tie); two spans of different types that overlap only partly are both
\* kept, whatever their scores: {PERSON,0,8,0.8} and
\* {EMAIL_ADDRESS,4,20,0.99} are both kept.
C7_ContainedIsDropped ==
    (Anonymized /\ TwoOverlapping) =>
        LET a == analyzer_results[1]
            b == analyzer_results[2]
            kept == {ResolvedSpans[k] : k \in 1..Len(ResolvedSpans)}
        IN  /\ Len(Records) = Cardinality(kept)
            /\ IF a.entity_type = b.entity_type
               THEN kept = {[b EXCEPT !.start = Min(a.start, b.start),
                                      !.end = Max(a.end, b.end),
                                      !.score = Max(a.score, b.score)]}
               ELSE IF equal_indices(a, b)
               THEN kept = {IF a.score > b.score THEN a ELSE b}
               ELSE IF contains(a, b) THEN kept = {a}
               ELSE IF contains(b, a) THEN kept = {b}
               ELSE kept = {a, b}

\* The spans {PERSON,0,8,0.8} and {EMAIL_ADDRESS,4,20,0.99}, both operated on
C7_Witness ==
    /\ pc = "anonymized"
    /\ analyzer_results =
         <<[entity_type |-> "PERSON", start |-> 0, end |-> 8, score |-> 80],
           [entity_type |-> "EMAIL_ADDRESS", start |-> 4, end |-> 20, score |-> 99]>>
    /\ Len(Records) = 2

\* C8: the replacement of a PHONE_NUMBER span, whatever its length, has the
\* length of the original, shows its first 3 characters and has 'X' for
\* every other character.
C8_PhoneMask ==
    Anonymized =>
        \A k \in 1..Len(Records) :
            Records[k].entity_type = "PHONE_NUMBER" =>
                /\ Len(Records[k].text) = Len(OriginalOf(k))
                /\ \A i \in 1..Len(Records[k].text) :
                      Records[k].text[i] = IF i <= 3 THEN OriginalOf(k)[i] ELSE <<"X">>

\* C9: every candidate region has the start and the end of a token emitted
\* by the encrypt operator.
C9_RegionsAreTokens ==
    MainCall =>
        \A i \in 1..Len(deanonymizable) :
            \E k \in EncryptedRecords :
                /\ deanonymizable[i].start = Records[k].start
                /\ deanonymizable[i].end = Records[k].end

\* C10: the entities handed to the deanonymizer are pairwise non-overlapping
\* and hold each located region at most once.
C10_NoDuplicates ==
    WithEntitiesDone => NonOverlapping(deanonymizable)

====
